---- MODULE Spec2Model ----
(***************************************************************************)
(* Vector-collection provisioning of the two RAG demos (langchain-app and  *)
(* llamaindex-app).  Both apps share the same control flow:                *)
(*   main -> VectorDatabase.load_index -> create_collection_if_not_exists  *)
(*        -> (probe fails) create_collection -> create_index               *)
(*        -> create_collection_if_not_exists -> ... -> upload              *)
(* The Qdrant store is modelled by what its three requests do to a named   *)
(* collection: get_collection, create_collection and the document upload.  *)
(***************************************************************************)
EXTENDS Integers, Sequences, FiniteSets, TLC

\* ------------------------------------------------------------------ bounds
MaxDocs  == 2      \* a document set holds 0..MaxDocs documents
MaxCount == 3      \* no call starts that could push a collection past this
MaxLen   == 1      \* longest line typed at the prompt
MaxDepth == 7      \* deepest call stack the model follows

Procs  == {1, 2}                  \* processes that may run the program
Names  == {"pets-kb", "other"}    \* values of COLLECTION_NAME
Dims   == {768, 1536}             \* values of VECTOR_SIZE
Chars  == {"e", "E", "q"}         \* characters typed at the prompt
Entries == {"main", "load_index", "create_index"}

VARIABLES
    store,       \* Qdrant: name -> [exists, dim, count, created, partial]
    reachable,   \* whether the store answers requests right now
    pc,          \* per process: the statement it is at
    stack,       \* per process: the active frames, outermost first
    db,          \* per process: the VectorDatabase instance's fields
    documents,   \* per process: number of documents passed in
    query,       \* per process: the line last read by input()
    call,        \* per process: history of the current provisioning call
    cli          \* per process: history of main()'s interactive loop

vars == <<store, reachable, pc, stack, db, documents, query, call, cli>>

\* ------------------------------------------------------------- the store
NoCollection == [exists |-> FALSE, dim |-> 0, count |-> 0, created |-> 0,
                 partial |-> FALSE]

\* client.get_collection(name): the answer of the store.
get_collection(n) ==
    IF ~reachable THEN "unavailable"
    ELSE IF store[n].exists THEN "ok" ELSE "not_found"

\* create_collection_ok as it would be with recreate_collection, which the
\* store accepts for an existing name too.
create_collection_ok_recreate(n) == reachable

\* client.create_collection(name, VectorParams(size, COSINE)) is accepted by
\* the store only when it is reachable and holds no collection of that name.
create_collection_ok(n) == reachable /\ ~store[n].exists

\* The store after an accepted create_collection.
create_collection(n, size) ==
    [store EXCEPT ![n] = [exists |-> TRUE, dim |-> size, count |-> 0,
                          created |-> @.created + 1, partial |-> @.partial]]

\* The store after the upload of d documents into collection n.
upsert(n, d) == [store EXCEPT ![n].count = @ + d]

\* str.lower() on the characters of the model.
lower_char(c) == IF c = "E" THEN "e" ELSE c
lower(s) == [i \in DOMAIN s |-> lower_char(s[i])]

Inputs == UNION {[1..k -> Chars] : k \in 0..MaxLen}

\* ------------------------------------------------------- call histories
IdleCall == [op |-> "none", pre |-> NoCollection, probes |-> 0, creates |-> 0,
             created |-> FALSE, uploads |-> 0, uploaded |-> 0,
             firstProbe |-> "none", lastProbe |-> "none", conflict |-> FALSE,
             down |-> FALSE, idxfail |-> FALSE, outcome |-> "none"]

NewCall(op, n) == [IdleCall EXCEPT !.op = op, !.pre = store[n]]

IdleCli == [loop |-> FALSE, reads |-> FALSE, failed |-> FALSE, qerr |-> FALSE,
            exit |-> "none"]

Top(p) == stack[p][Len(stack[p])]
Pop(p) == SubSeq(stack[p], 1, Len(stack[p]) - 1)
Running(p) == pc[p] \notin {"idle", "done"}
\* Depth of the frame that is the provisioning call (load_index/create_index).
EntryDepth(p) == IF stack[p] # <<>> /\ stack[p][1] = "main" THEN 2 ELSE 1

RECURSIVE SumOver(_, _)
SumOver(S, f) ==
    IF S = {} THEN 0
    ELSE LET x == CHOOSE y \in S : TRUE IN f[x] + SumOver(S \ {x}, f)

\* Documents a call entered at e with d documents may add to its collection:
\* create_index as the entry point can run the upload at both nesting levels.
Reserve(e, d) == IF e = "create_index" THEN 2 * d ELSE d

\* Documents that running calls may still add to collection n.
Committed(n) ==
    SumOver({q \in Procs : Running(q) /\ db[q].collection_name = n},
            [q \in Procs |-> IF stack[q] = <<>> THEN 0
                             ELSE Reserve(stack[q][1], documents[q])])

Init ==
    /\ store = [n \in Names |-> NoCollection]
    /\ reachable = TRUE
    /\ pc = [p \in Procs |-> "idle"]
    /\ stack = [p \in Procs |-> <<>>]
    /\ db = [p \in Procs |-> [collection_name |-> "pets-kb", vector_size |-> 1536]]
    /\ documents = [p \in Procs |-> 0]
    /\ query = [p \in Procs |-> <<>>]
    /\ call = [p \in Procs |-> IdleCall]
    /\ cli = [p \in Procs |-> IdleCli]

\* --------------------------------------------------------------- actions
\* A run of the program (main) or a direct call of load_index / create_index
\* on a fresh VectorDatabase() whose fields come from the environment: the
\* entry point is drawn from E, COLLECTION_NAME from N, VECTOR_SIZE from D.
StartWith(p, E, N, D) ==
    /\ pc[p] \in {"idle", "done"}
    /\ \E e \in E, n \in N, size \in D, d \in 0..MaxDocs :
        /\ store[n].count + Committed(n) + Reserve(e, d) <= MaxCount
        /\ db' = [db EXCEPT ![p] = [collection_name |-> n, vector_size |-> size]]
        /\ documents' = [documents EXCEPT ![p] = d]
        /\ cli' = [cli EXCEPT ![p] = IdleCli]
        /\ query' = [query EXCEPT ![p] = <<>>]
        /\ IF e = "main"
           THEN /\ stack' = [stack EXCEPT ![p] = <<"main">>]
                /\ pc' = [pc EXCEPT ![p] = "load_docs"]
                /\ call' = [call EXCEPT ![p] = IdleCall]
           ELSE /\ stack' = [stack EXCEPT ![p] = <<e, "ccine">>]
                /\ pc' = [pc EXCEPT ![p] = "probe"]
                /\ call' = [call EXCEPT ![p] = NewCall(e, n)]
    /\ UNCHANGED <<store, reachable>>

Start(p) == StartWith(p, Entries, Names, Dims)

\* Several deployments of the same configuration provisioning at once.
StartShared(p) == StartWith(p, {"load_index", "create_index"}, {"pets-kb"}, {1536})

\* main: documents = pdf_loader.load_and_process_pdf(); then load_index.
LoadDocs(p) ==
    /\ pc[p] = "load_docs"
    /\ \/ /\ stack' = [stack EXCEPT ![p] = <<"main", "load_index", "ccine">>]
          /\ pc' = [pc EXCEPT ![p] = "probe"]
          /\ call' = [call EXCEPT ![p] = NewCall("load_index", db[p].collection_name)]
          /\ cli' = cli
       \/ /\ pc' = [pc EXCEPT ![p] = "raise"]
          /\ cli' = [cli EXCEPT ![p].failed = TRUE]
          /\ UNCHANGED <<stack, call>>
    /\ UNCHANGED <<store, reachable, db, documents, query>>

\* Probe as it would be if an unanswered get_collection were sent again.
Probe_Retrying(p) ==
    /\ pc[p] = "probe"
    /\ Top(p) = "ccine"
    /\ LET r == get_collection(db[p].collection_name) IN
        /\ call' = [call EXCEPT ![p].probes = @ + 1,
                                ![p].firstProbe = IF @ = "none" THEN r ELSE @,
                                ![p].lastProbe = r,
                                ![p].down = @ \/ (r = "unavailable")]
        /\ pc' = [pc EXCEPT ![p] = CASE r = "ok" -> "ret"
                                     [] r = "not_found" -> "create"
                                     [] OTHER -> "probe"]
    /\ UNCHANGED <<store, reachable, stack, db, documents, query, cli>>

\* Probe as it would be if a found collection's vector size were compared
\* with VECTOR_SIZE and a mismatch raised.
Probe_Validating(p) ==
    /\ pc[p] = "probe"
    /\ Top(p) = "ccine"
    /\ LET r == get_collection(db[p].collection_name) IN
        /\ call' = [call EXCEPT ![p].probes = @ + 1,
                                ![p].firstProbe = IF @ = "none" THEN r ELSE @,
                                ![p].lastProbe = r,
                                ![p].down = @ \/ (r = "unavailable")]
        /\ pc' = [pc EXCEPT ![p] =
                IF r = "ok"
                THEN IF store[db[p].collection_name].dim = db[p].vector_size
                     THEN "ret" ELSE "raise"
                ELSE "create"]
    /\ UNCHANGED <<store, reachable, stack, db, documents, query, cli>>

\* create_collection_if_not_exists: try: client.get_collection(...)
\* except Exception: go on to create the collection.
Probe(p) ==
    /\ pc[p] = "probe"
    /\ Top(p) = "ccine"
    /\ LET r == get_collection(db[p].collection_name) IN
        /\ call' = [call EXCEPT ![p].probes = @ + 1,
                                ![p].firstProbe = IF @ = "none" THEN r ELSE @,
                                ![p].lastProbe = r,
                                ![p].down = @ \/ (r = "unavailable")]
        /\ pc' = [pc EXCEPT ![p] = IF r = "ok" THEN "ret" ELSE "create"]
    /\ UNCHANGED <<store, reachable, stack, db, documents, query, cli>>

\* Create as it would be if the new collection were left unindexed.
Create_NoIndex(p) ==
    /\ pc[p] = "create"
    /\ Top(p) = "ccine"
    /\ LET n == db[p].collection_name IN
        IF create_collection_ok(n)
        THEN /\ store' = create_collection(n, db[p].vector_size)
             /\ pc' = [pc EXCEPT ![p] = "ret"]
             /\ call' = [call EXCEPT ![p].creates = @ + 1, ![p].created = TRUE]
             /\ stack' = stack
        ELSE /\ pc' = [pc EXCEPT ![p] = "raise"]
             /\ call' = [call EXCEPT ![p].creates = @ + 1,
                                     ![p].down = @ \/ ~reachable]
             /\ UNCHANGED <<store, stack>>
    /\ UNCHANGED <<reachable, db, documents, query, cli>>

\* create_collection_if_not_exists: try: client.create_collection(...);
\* self.create_index(documents)  except Exception: log; raise
Create(p) ==
    /\ pc[p] = "create"
    /\ Top(p) = "ccine"
    /\ LET n == db[p].collection_name IN
        IF create_collection_ok(n)
        THEN /\ Len(stack[p]) + 2 <= MaxDepth
             /\ store' = create_collection(n, db[p].vector_size)
             /\ stack' = [stack EXCEPT ![p] = @ \o <<"create_index", "ccine">>]
             /\ pc' = [pc EXCEPT ![p] = "probe"]
             /\ call' = [call EXCEPT ![p].creates = @ + 1, ![p].created = TRUE]
        ELSE /\ pc' = [pc EXCEPT ![p] = "raise"]
             /\ call' = [call EXCEPT ![p].creates = @ + 1,
                                     ![p].down = @ \/ ~reachable,
                                     ![p].conflict = @ \/ (reachable /\
                                         call[p].lastProbe = "not_found")]
             /\ UNCHANGED <<store, stack>>
    /\ UNCHANGED <<reachable, db, documents, query, cli>>

\* create_index: the upload succeeded and the index object is returned.
UploadOk(p) ==
    /\ reachable
    /\ store[db[p].collection_name].exists
    /\ store' = upsert(db[p].collection_name, documents[p])
    /\ pc' = [pc EXCEPT ![p] = "ret"]
    /\ call' = [call EXCEPT ![p].uploads = @ + 1, ![p].uploaded = @ + 1]

\* create_index: the upload raised; except Exception: log; raise
UploadFail(p) ==
    /\ store' = store
    /\ pc' = [pc EXCEPT ![p] = "raise"]
    /\ call' = [call EXCEPT ![p].uploads = @ + 1,
                            ![p].down = @ \/ ~reachable,
                            ![p].idxfail = TRUE]

\* create_index after its create_collection_if_not_exists call returned.
Upload(p) ==
    /\ pc[p] = "upload"
    /\ Top(p) = "create_index"
    /\ (UploadOk(p) \/ UploadFail(p))
    /\ UNCHANGED <<reachable, stack, db, documents, query, cli>>

\* Where the caller goes on once frame f has returned to it.
AfterReturn(f, caller) ==
    CASE f = "ccine" /\ caller = "create_index" -> "upload"
      [] f = "ccine" /\ caller = "load_index"   -> "ret"
      [] f = "create_index" /\ caller = "ccine" -> "ret"
      [] f = "load_index" /\ caller = "main"    -> "setup"
      [] OTHER -> "done"

\* Return as it would be if load_index re-indexed a collection it found.
Return_Reindexing(p) ==
    /\ pc[p] = "ret"
    /\ stack[p] # <<>>
    /\ LET f == Top(p)
           rest == Pop(p)
           again == f = "ccine" /\ rest # <<>> /\ rest[Len(rest)] = "load_index"
                    /\ ~call[p].created
       IN /\ stack' = [stack EXCEPT ![p] = rest]
          /\ pc' = [pc EXCEPT ![p] =
                IF rest = <<>> THEN "done" ELSE AfterReturn(f, rest[Len(rest)])]
          /\ store' = IF again THEN upsert(db[p].collection_name, documents[p])
                      ELSE store
          /\ call' = [call EXCEPT ![p].outcome =
                IF Len(stack[p]) = EntryDepth(p) THEN "handle" ELSE @]
    /\ UNCHANGED <<reachable, db, documents, query, cli>>

\* A frame returns normally to its caller.
Return(p) ==
    /\ pc[p] = "ret"
    /\ stack[p] # <<>>
    /\ LET f == Top(p)
           rest == Pop(p)
       IN /\ stack' = [stack EXCEPT ![p] = rest]
          /\ pc' = [pc EXCEPT ![p] =
                IF rest = <<>> THEN "done" ELSE AfterReturn(f, rest[Len(rest)])]
          /\ call' = [call EXCEPT ![p].outcome =
                IF Len(stack[p]) = EntryDepth(p) THEN "handle" ELSE @]
    /\ UNCHANGED <<store, reachable, db, documents, query, cli>>

\* The store once frame f of process p is left by an exception: when f is the
\* provisioning call itself and the call created its collection without
\* getting a document into it, the collection is on record as left
\* created-but-empty (history only: no request is sent).
LeftPartial(p, f) ==
    LET n == db[p].collection_name IN
    IF /\ f # "main" /\ Len(stack[p]) = EntryDepth(p)
       /\ call[p].created /\ store[n].exists /\ store[n].count = 0
    THEN [store EXCEPT ![n].partial = TRUE]
    ELSE store

\* Unwind as it would be if create_collection_if_not_exists logged the error
\* of its creation branch without re-raising it.
Unwind_Swallowing(p) ==
    /\ pc[p] = "raise"
    /\ stack[p] # <<>>
    /\ LET f == Top(p)
           rest == Pop(p)
           swallow == f = "ccine" /\ rest # <<>>
       IN /\ stack' = [stack EXCEPT ![p] = rest]
          /\ pc' = [pc EXCEPT ![p] =
                IF rest = <<>> THEN "done"
                ELSE IF swallow THEN AfterReturn(f, rest[Len(rest)]) ELSE "raise"]
          /\ call' = [call EXCEPT ![p].outcome =
                IF f # "main" /\ Len(stack[p]) = EntryDepth(p) THEN "error" ELSE @]
          /\ cli' = [cli EXCEPT ![p].failed = @ \/ (f = "load_index" /\ rest = <<"main">>),
                                ![p].exit = IF f = "main" THEN "critical" ELSE @]
          /\ store' = LeftPartial(p, f)
    /\ UNCHANGED <<reachable, db, documents, query>>

\* An exception leaves a frame: every handler of vector_database.py logs and
\* re-raises; main's outer handler logs "Critical error" and main ends.
Unwind(p) ==
    /\ pc[p] = "raise"
    /\ stack[p] # <<>>
    /\ LET f == Top(p)
           rest == Pop(p)
       IN /\ stack' = [stack EXCEPT ![p] = rest]
          /\ pc' = [pc EXCEPT ![p] = IF rest = <<>> THEN "done" ELSE "raise"]
          /\ call' = [call EXCEPT ![p].outcome =
                IF f # "main" /\ Len(stack[p]) = EntryDepth(p) THEN "error" ELSE @]
          /\ cli' = [cli EXCEPT ![p].failed = @ \/ (f = "load_index" /\ rest = <<"main">>),
                                ![p].exit = IF f = "main" THEN "critical" ELSE @]
          /\ store' = LeftPartial(p, f)
    /\ UNCHANGED <<reachable, db, documents, query>>

\* main: build the llm, the chain, the tools and the agent, then enter the loop.
Setup(p) ==
    /\ pc[p] = "setup"
    /\ \/ /\ pc' = [pc EXCEPT ![p] = "input"]
          /\ cli' = [cli EXCEPT ![p].loop = TRUE]
       \/ /\ pc' = [pc EXCEPT ![p] = "raise"]
          /\ cli' = cli
    /\ UNCHANGED <<store, reachable, stack, db, documents, query, call>>

\* main: query = input("> "); if query.lower() == "e": break
Input(p) ==
    /\ pc[p] = "input"
    /\ \E s \in Inputs :
        /\ query' = [query EXCEPT ![p] = s]
        /\ cli' = [cli EXCEPT ![p].reads = TRUE,
                              ![p].exit = IF lower(s) = <<"e">> THEN "quit" ELSE @]
        /\ IF lower(s) = <<"e">>
           THEN /\ pc' = [pc EXCEPT ![p] = "done"]
                /\ stack' = [stack EXCEPT ![p] = <<>>]
           ELSE /\ pc' = [pc EXCEPT ![p] = "answer"]
                /\ stack' = stack
    /\ UNCHANGED <<store, reachable, db, documents, call>>

\* Answer as it would be if the error of a query left the loop.
Answer_Propagating(p) ==
    /\ pc[p] = "answer"
    /\ \E ok \in BOOLEAN :
        /\ pc' = [pc EXCEPT ![p] = IF ok THEN "input" ELSE "raise"]
        /\ cli' = [cli EXCEPT ![p].qerr = @ \/ ~ok]
    /\ UNCHANGED <<store, reachable, stack, db, documents, query, call>>

\* main: try: response = agent.run(...); log the response
\* except Exception: log the error.  Either way the loop goes on.
Answer(p) ==
    /\ pc[p] = "answer"
    /\ \E ok \in BOOLEAN :
        /\ pc' = [pc EXCEPT ![p] = "input"]
        /\ cli' = [cli EXCEPT ![p].qerr = @ \/ ~ok]
    /\ UNCHANGED <<store, reachable, stack, db, documents, query, call>>

\* The store stops or resumes answering requests.
StoreDown ==
    /\ reachable
    /\ reachable' = FALSE
    /\ UNCHANGED <<store, pc, stack, db, documents, query, call, cli>>

StoreUp ==
    /\ ~reachable
    /\ reachable' = TRUE
    /\ UNCHANGED <<store, pc, stack, db, documents, query, call, cli>>

Step(p) ==
    \/ Start(p) \/ LoadDocs(p) \/ Probe(p) \/ Create(p) \/ Upload(p)
    \/ Return(p) \/ Unwind(p) \/ Setup(p) \/ Input(p) \/ Answer(p)

\* One process, calls one after another, against a store that may fail.
Next == Step(1) \/ StoreDown \/ StoreUp

Spec == Init /\ [][Next]_vars

\* Several processes provisioning the same collection name at once, each
\* store request one atomic step, the store reachable throughout.
NextConc ==
    \E p \in Procs :
        \/ StartShared(p) \/ Probe(p) \/ Create(p) \/ Upload(p)
        \/ Return(p) \/ Unwind(p)

SpecConc == Init /\ [][NextConc]_vars

\* The statements of vector_database.py a process executes by itself: every
\* store request is a blocking call that returns or raises.
Work(p) == Probe(p) \/ Create(p) \/ Upload(p) \/ Return(p) \/ Unwind(p)

\* Direct calls of load_index / create_index, one after another.
StartCall(p) == StartWith(p, {"load_index", "create_index"}, Names, Dims)

NextCalls == StartCall(1) \/ Work(1) \/ StoreDown \/ StoreUp

FairSpec == Init /\ [][NextCalls]_vars /\ WF_vars(Work(1))

\* Runs of the program and direct load_index calls, one after another:
\* load_index is the only provisioning entry point main uses.
StartRun(p) == StartWith(p, {"main", "load_index"}, Names, Dims)

NextRuns ==
    \/ StartRun(1) \/ LoadDocs(1) \/ Work(1)
    \/ Setup(1) \/ Input(1) \/ Answer(1)
    \/ StoreDown \/ StoreUp

SpecRuns == Init /\ [][NextRuns]_vars

\* ---------------------------------------------------------------- claims
Finished(p) == call[p].outcome # "none"
Coll(p) == store[db[p].collection_name]

\* C1: a load_index call on a collection that an earlier call created and
\* indexed never creates and never uploads, whatever documents it is given,
\* so the indexed document count stays what it was; and when the store
\* answers its existence probe the call sends no create_collection and
\* returns a handle.
C1_ReuseWithoutReindex ==
    \A p \in {1} :
        (call[p].op = "load_index" /\ call[p].pre.exists /\ call[p].pre.count > 0) =>
            /\ call[p].uploads = 0
            /\ ~call[p].created
            /\ Coll(p).exists
            /\ Coll(p).count = call[p].pre.count
            /\ Coll(p).created = call[p].pre.created
            /\ (call[p].firstProbe = "ok" => call[p].creates = 0)
            /\ (Finished(p) /\ call[p].firstProbe = "ok" => call[p].outcome = "handle")

\* C1 witness: a second call, with a document set of another size than the
\* indexed one, has returned a handle.
C1_Witness ==
    /\ call[1].op = "load_index"
    /\ call[1].pre.exists /\ call[1].pre.count = 1
    /\ documents[1] = 2
    /\ call[1].outcome = "handle"
    /\ Coll(1).count = 1

\* C2: a load_index call for a name that does not exist yet, given at least
\* one document, whose store requests are all answered and whose upload does
\* not fail, finds the name absent at its probe and ends with the collection
\* existing, holding more than zero documents, and a handle returned.
C2_FreshBecomesReady ==
    \A p \in {1} :
        (/\ call[p].op = "load_index" /\ ~call[p].pre.exists
         /\ ~call[p].down /\ ~call[p].idxfail) =>
            /\ call[p].firstProbe \in {"none", "not_found"}
            /\ (Finished(p) /\ documents[p] > 0 =>
                    /\ call[p].outcome = "handle"
                    /\ call[p].created
                    /\ Coll(p).exists
                    /\ Coll(p).count > 0)

\* C2 witness: such a call has ended Ready.
C2_Witness ==
    /\ call[1].op = "load_index" /\ ~call[1].pre.exists
    /\ ~call[1].down /\ ~call[1].idxfail
    /\ documents[1] = 2
    /\ call[1].firstProbe = "not_found"
    /\ call[1].outcome = "handle"
    /\ Coll(1).exists /\ Coll(1).count = 2

\* C3 (as claimed): a call whose existence probe met an unreachable store
\* sends no create_collection, creates nothing, and ends with an error.
C3_UnreachableProbeCreatesNothing ==
    \A p \in {1} :
        (call[p].op = "load_index" /\ call[p].firstProbe = "unavailable") =>
            /\ call[p].creates = 0
            /\ ~call[p].created
            /\ (Finished(p) => call[p].outcome = "error")

\* The indexing step of a call that created its collection has failed: the
\* upload raised, or the nested create_collection_if_not_exists raised.
IndexingFailed(p) == call[p].created /\ (call[p].idxfail \/ call[p].creates > 1)

\* C4: a load_index call whose create_collection succeeded and whose
\* indexing step then failed ends with the error propagated, the collection
\* existing with zero documents, created once and not deleted, and the
\* upload attempted at most once.
C4_PartiallyCreated ==
    \A p \in {1} :
        (call[p].op = "load_index" /\ IndexingFailed(p)) =>
            /\ Coll(p).exists
            /\ Coll(p).count = 0
            /\ Coll(p).created = call[p].pre.created + 1
            /\ Coll(p).dim = db[p].vector_size
            /\ call[p].uploads <= 1
            /\ call[p].uploaded = 0
            /\ call[p].outcome # "handle"
            /\ pc[p] \in {"raise", "done"}
            /\ (pc[p] = "done" => call[p].outcome = "error")

\* C4 witness: the upload of a freshly created collection raised and the
\* call has ended with the error.
C4_Witness ==
    /\ call[1].op = "load_index"
    /\ call[1].created /\ call[1].idxfail
    /\ documents[1] > 0
    /\ pc[1] = "done" /\ call[1].outcome = "error"
    /\ Coll(1).exists /\ Coll(1).count = 0
\* C5 (as claimed): of concurrent calls for one name at most one
\* create_collection succeeds, and no caller whose probe found the name
\* absent has its create_collection rejected because another caller created
\* the collection in between.
C5_NoRace ==
    /\ \A n \in Names : store[n].created <= 1
    /\ \A p \in Procs : ~call[p].conflict

\* C5 (amended): at most one create_collection succeeds per name; a caller
\* whose create_collection is rejected after its probe found the name absent
\* has created nothing, uploads nothing, and ends with the error.
C5_AtMostOneCreation ==
    /\ \A n \in Names : store[n].created <= 1
    /\ \A p \in Procs :
        call[p].conflict =>
            /\ Coll(p).exists
            /\ ~call[p].created
            /\ call[p].uploads = 0
            /\ call[p].outcome # "handle"
            /\ pc[p] \in {"raise", "done"}

\* C5 witness: the loser of the race has ended with the creation error.
C5_Witness ==
    /\ call[2].conflict /\ call[2].lastProbe = "not_found"
    /\ call[2].outcome = "error"
    /\ store[db[2].collection_name].created = 1

\* C6 (as claimed): one load_index call sends one get_collection and at
\* most one create_collection.
C6_SingleProbeSingleCreate ==
    \A p \in {1} :
        call[p].op = "load_index" => call[p].probes <= 1 /\ call[p].creates <= 1

\* C6 (amended): one load_index call sends one get_collection when it finds
\* the collection and a second one only after its own create_collection
\* succeeded (the nested create_index probes again); it sends a second
\* create_collection only when that second probe fails, at most one
\* creation succeeds, and the upload is attempted at most once.
C6_ProbesAndCreates ==
    \A p \in {1} :
        call[p].op = "load_index" =>
            /\ call[p].probes <= (IF call[p].created THEN 2 ELSE 1)
            /\ call[p].creates <= call[p].probes
            /\ call[p].uploads <= 1
            /\ (call[p].creates = 2 => call[p].lastProbe # "ok")
            /\ Coll(p).created <= call[p].pre.created + 1
            /\ (Finished(p) /\ call[p].firstProbe = "ok" =>
                    call[p].probes = 1 /\ call[p].creates = 0)
            /\ (Finished(p) /\ call[p].created /\ call[p].outcome = "handle" =>
                    call[p].probes = 2 /\ call[p].creates = 1)

\* C6 witness: a call that created the collection has returned a handle
\* after two probes.
C6_Witness ==
    /\ call[1].op = "load_index"
    /\ call[1].created /\ call[1].outcome = "handle"
    /\ call[1].probes = 2 /\ call[1].creates = 1

\* The three ways a load_index call ends.
Ready(p) == call[p].outcome = "handle" /\ Coll(p).exists
PartiallyCreatedEnd(p) ==
    /\ call[p].outcome = "error" /\ IndexingFailed(p)
    /\ Coll(p).exists /\ Coll(p).count = 0
FailedClean(p) ==
    /\ call[p].outcome = "error" /\ ~call[p].created
    /\ call[p].creates = 1 /\ call[p].uploads = 0
    /\ Coll(p) = call[p].pre

\* C7: every load_index call ends, in exactly one of Ready, PartiallyCreated
\* or an error with nothing created, and the nesting of
\* create_collection_if_not_exists and create_index never gets deeper than
\* load_index -> ccine -> create_index -> ccine.
C7_Terminates ==
    /\ \A p \in {1} :
        (call[p].op = "load_index" /\ ~Finished(p)) ~> Finished(p)
    /\ [](\A p \in {1} :
            /\ Len(stack[p]) <= 4
            /\ (call[p].op = "load_index" /\ Finished(p) =>
                    /\ (Ready(p) \/ PartiallyCreatedEnd(p) \/ FailedClean(p))
                    /\ ~(Ready(p) /\ PartiallyCreatedEnd(p))
                    /\ ~(Ready(p) /\ FailedClean(p))
                    /\ ~(PartiallyCreatedEnd(p) /\ FailedClean(p))))

\* C7 witness: a call that created the collection, met an unreachable store
\* at the nested probe and a rejected second create_collection, has ended.
C7_Witness ==
    /\ call[1].op = "load_index"
    /\ call[1].created /\ call[1].creates = 2
    /\ pc[1] = "done" /\ PartiallyCreatedEnd(1)

\* C8: a load_index call configured with a VECTOR_SIZE other than the
\* dimension of the existing collection leaves the stored collection as it
\* was; its probe, when answered, finds the collection, and then the call
\* sends no create_collection and returns a handle.
C8_NoDimensionCheck ==
    \A p \in {1} :
        (/\ call[p].op = "load_index" /\ call[p].pre.exists
         /\ call[p].pre.dim # db[p].vector_size) =>
            /\ Coll(p) = call[p].pre
            /\ call[p].firstProbe # "not_found"
            /\ (call[p].firstProbe = "ok" /\ ~Finished(p) => pc[p] = "ret")
            /\ (call[p].firstProbe = "ok" => call[p].creates = 0)
            /\ (Finished(p) /\ call[p].firstProbe = "ok" => call[p].outcome = "handle")

\* C8 witness: VECTOR_SIZE 768 against a stored dimension of 1536.
C8_Witness ==
    /\ call[1].op = "load_index"
    /\ call[1].pre.exists /\ call[1].pre.dim = 1536
    /\ db[1].vector_size = 768
    /\ call[1].outcome = "handle"
    /\ Coll(1).dim = 1536

\* C9: once the loop of main has started no exception is in flight, the
\* run ends only by a line whose lower case is "e", also after queries that
\* raised; and when loading the documents or the index failed the loop was
\* never entered and no line was read.
C9_LoopSurvivesQueryErrors ==
    \A p \in {1} :
        /\ (cli[p].loop /\ stack[p] # <<>> => stack[p] = <<"main">> /\ pc[p] \in {"input", "answer"})
        /\ (cli[p].loop /\ pc[p] = "done" =>
                cli[p].exit = "quit" /\ query[p] \in {<<"e">>, <<"E">>})
        /\ (pc[p] = "answer" => query[p] \notin {<<"e">>, <<"E">>})
        /\ (cli[p].reads \/ cli[p].qerr => cli[p].loop)
        /\ (cli[p].failed => ~cli[p].loop /\ ~cli[p].reads)
        /\ (cli[p].loop => call[p].outcome = "handle")

\* C9 witness: a query raised, and the run later ended at the line "E".
C9_Witness ==
    /\ cli[1].loop /\ cli[1].qerr
    /\ pc[1] = "done" /\ cli[1].exit = "quit" /\ query[1] = <<"E">>

\* C9 witness of the second half: load_index failed and main has ended.
C9_WitnessFailed ==
    /\ cli[1].failed /\ call[1].outcome = "error"
    /\ pc[1] = "done" /\ cli[1].exit = "critical"

\* C10 (as claimed): a create_index call that returned its index has run the
\* upload exactly once, so the collection gained the documents once.
C10_UploadOnce ==
    \A p \in {1} :
        (call[p].op = "create_index" /\ call[p].outcome = "handle") =>
            /\ call[p].uploaded = 1
            /\ Coll(p).count = call[p].pre.count + documents[p]
\* C11: a collection that a provisioning call left created-but-empty stays
\* in the store with zero documents through every later load_index call,
\* whatever documents the call is given: such a call never uploads and never
\* creates, its probe, when answered, finds the collection, and then it
\* sends no create_collection and returns a handle.
C11_PartialStaysEmpty ==
    /\ \A n \in Names :
        store[n].partial => store[n].exists /\ store[n].count = 0
    /\ \A p \in {1} :
        (call[p].op = "load_index" /\ call[p].pre.partial) =>
            /\ call[p].uploads = 0
            /\ ~call[p].created
            /\ Coll(p) = call[p].pre
            /\ call[p].firstProbe # "not_found"
            /\ (call[p].firstProbe = "ok" => call[p].creates = 0)
            /\ (call[p].firstProbe = "ok" /\ ~Finished(p) => pc[p] = "ret")
            /\ (Finished(p) /\ call[p].firstProbe = "ok" => call[p].outcome = "handle")

\* C11 witness: a later call with two documents has returned a handle on a
\* collection left created-but-empty, which still holds no document.
C11_Witness ==
    /\ call[1].op = "load_index"
    /\ call[1].pre.partial
    /\ documents[1] = 2
    /\ call[1].outcome = "handle"
    /\ Coll(1).partial /\ Coll(1).count = 0

====
